---- MODULE Spec2Model ----
(***************************************************************************)
(* State-machine model of selfdrive/car/toyota/carcontroller.py:           *)
(* CarController.__init__ and one action per call of CarController.update. *)
(*                                                                         *)
(* Units.  The source computes in floats; the model uses scaled integers:  *)
(*   speeds            mm/s        (vEgo 5 m/s is 5000)                    *)
(*   accelerations     mm/s^2      (accel 2.0 m/s^2 is 2000)               *)
(*   pedal commands    1/1000      (gas 0.5 is 500)                        *)
(*   angles            1/10000 deg (94.9461 deg is 949461)                 *)
(*   steering rate     deg/s                                               *)
(*   torques           the EPS torque unit of the CAN signal               *)
(*   actuators.steer   a fraction steer/SteerDen in [-1, 1]                *)
(***************************************************************************)
EXTENDS Integers, Sequences

VARIABLES
  CP,                             \* self.CP: the car parameters (fixed at construction)
  dp_toyota_auto_lock,            \* Params flag read at construction
  dp_toyota_auto_unlock,          \* Params flag read at construction
  dp_toyota_sng,                  \* Params flag read at construction
  frame,                          \* self.frame
  last_steer,                     \* self.last_steer
  last_angle,                     \* self.last_angle
  alert_active,                   \* self.alert_active
  last_standstill,                \* self.last_standstill
  standstill_req,                 \* self.standstill_req
  steer_rate_counter,             \* self.steer_rate_counter
  gas,                            \* self.gas
  accel,                          \* self.accel
  dp_toyota_auto_lock_gear_prev,  \* self.dp_toyota_auto_lock_gear_prev
  dp_toyota_auto_lock_once,       \* self.dp_toyota_auto_lock_once
  inp,                            \* the (CC, CS) arguments of the last update() call
  can_sends,                      \* the message list returned by the last update() call
  new_actuators                   \* the actuator echo returned by the last update() call

vars == <<CP, dp_toyota_auto_lock, dp_toyota_auto_unlock, dp_toyota_sng, frame,
          last_steer, last_angle, alert_active, last_standstill, standstill_req,
          steer_rate_counter, gas, accel, dp_toyota_auto_lock_gear_prev,
          dp_toyota_auto_lock_once, inp, can_sends, new_actuators>>

(***************************************************************************)
(* Bounds of the model.                                                    *)
(***************************************************************************)
MaxFrame == 6         \* cycles explored by the specifications with wide inputs
MaxFrameRate == 21    \* cycles explored by SpecRate (more than MAX_STEER_RATE_FRAMES + 1)
MaxFrameCadence == 302  \* cycles explored by SpecCadence (past frames 300 and 301)
MaxFrameHud == 22     \* cycles explored by SpecHud (past the second frame with frame % 20 = 0)
MaxFrameSched == 102  \* cycles explored by SpecSched (past the second frame with frame % 100 = 0)
SteerDen == 4         \* actuators.steer is drawn from {-1, ..., 1} in steps of 1/SteerDen

(***************************************************************************)
(* Module constants of carcontroller.py.                                   *)
(***************************************************************************)
MAX_STEER_RATE == 100
MAX_STEER_RATE_FRAMES == 18
MAX_USER_TORQUE == 500
MAX_STEER_ANGLE == 949461
MAX_DRIVER_TORQUE_ALLOWANCE == 150
LOCK_AT_SPEED_KPH == 10
MAX_INTERCEPTOR_GAS == 500
ACTIVE_STANDSTILL == 8
LEAD_SPEED == 12000

UNLOCK_CMD == "UNLOCK_CMD"
LOCK_CMD == "LOCK_CMD"

(***************************************************************************)
(* selfdrive/car/toyota/values.py (modelled from its contract): the   *)
(* limit parameters and the car classes the controller consults.  The      *)
(* torque limits keep the shape of the limit table (DELTA_UP < DELTA_DOWN  *)
(* < STEER_MAX, ERROR_MAX < STEER_MAX) on a reduced torque scale.          *)
(***************************************************************************)
STEER_MAX == 15
STEER_DELTA_UP == 2
STEER_DELTA_DOWN == 5
STEER_ERROR_MAX == 4
ACCEL_MAX == 1500
ACCEL_MIN == -3500
MIN_ACC_SPEED == 8494
PEDAL_TRANSITION == 4470

CARS == {"RAV4", "COROLLA", "CAMRY", "PRIUS_V", "LEXUS_IS", "RAV4_TSS2"}
TSS2_CAR == {"RAV4_TSS2"}
NO_STOP_TIMER_CAR == TSS2_CAR \cup {"PRIUS_V"}
UNSUPPORTED_DSU_CAR == {"LEXUS_IS"}
PEDAL_SENSITIVE_CAR == {"RAV4", "RAV4H", "HIGHLANDER", "HIGHLANDERH"}
PEDAL_COROLLA_CAR == {"COROLLA"}

\* (addr, cars, bus, fr_step, payload) rows of the keep-alive table
STATIC_DSU_MSGS ==
  << [addr |-> 296,  cars |-> {"RAV4", "COROLLA"},          bus |-> 1, fr_step |-> 3,   vl |-> "x128"],
     [addr |-> 321,  cars |-> {"RAV4", "COROLLA", "CAMRY"}, bus |-> 1, fr_step |-> 2,   vl |-> "x141"],
     [addr |-> 352,  cars |-> {"RAV4", "COROLLA", "CAMRY"}, bus |-> 1, fr_step |-> 7,   vl |-> "x160"],
     [addr |-> 836,  cars |-> {"RAV4", "COROLLA", "CAMRY"}, bus |-> 0, fr_step |-> 5,   vl |-> "x344"],
     [addr |-> 1128, cars |-> {"CAMRY"},                    bus |-> 1, fr_step |-> 100, vl |-> "x470"] >>

(***************************************************************************)
(* Helpers: common/numpy_fast.py clip and interp, Python abs and round.    *)
(***************************************************************************)
Abs(x) == IF x < 0 THEN -x ELSE x
Min(a, b) == IF a < b THEN a ELSE b
Max(a, b) == IF a > b THEN a ELSE b

clip(x, lo, hi) == Max(lo, Min(hi, x))

\* round(n / d) for d > 0, ties to the even neighbour as Python's round does
RoundHalfEven(n, d) ==
  LET q == n \div d
      r == n % d
  IN  IF 2 * r < d THEN q
      ELSE IF 2 * r > d THEN q + 1
      ELSE IF q % 2 = 0 THEN q ELSE q + 1

\* interp over three breakpoints; the quotient is truncated to the model's unit
interp3(x, xp, fp) ==
  IF x <= xp[1] THEN fp[1]
  ELSE IF x > xp[3] THEN fp[3]
  ELSE IF x <= xp[2]
       THEN ((x - xp[1]) * (fp[2] - fp[1])) \div (xp[2] - xp[1]) + fp[1]
       ELSE ((x - xp[2]) * (fp[3] - fp[2])) \div (xp[3] - xp[2]) + fp[2]

\* interp over two breakpoints
interp2(x, xp, fp) ==
  IF x <= xp[1] THEN fp[1]
  ELSE IF x > xp[2] THEN fp[2]
  ELSE ((x - xp[1]) * (fp[2] - fp[1])) \div (xp[2] - xp[1]) + fp[1]

(***************************************************************************)
(* selfdrive/car/__init__.py (modelled from its contract): the limit  *)
(* library.  Its contract: never move the output by more than the allowed  *)
(* per-cycle delta, never exceed the absolute cap, with extra allowance    *)
(* while the measured torque opposes the commanded direction.              *)
(***************************************************************************)
apply_meas_steer_torque_limits(apply_torque, apply_torque_last, motor_torque) ==
  LET max_lim == Min(Max(motor_torque + STEER_ERROR_MAX, STEER_ERROR_MAX), STEER_MAX)
      min_lim == Max(Min(motor_torque - STEER_ERROR_MAX, -STEER_ERROR_MAX), -STEER_MAX)
      t == clip(apply_torque, min_lim, max_lim)
  IN  IF apply_torque_last > 0
      THEN clip(t, Max(apply_torque_last - STEER_DELTA_DOWN, -STEER_DELTA_UP),
                   apply_torque_last + STEER_DELTA_UP)
      ELSE clip(t, apply_torque_last - STEER_DELTA_UP,
                   Min(apply_torque_last + STEER_DELTA_DOWN, STEER_DELTA_UP))

ANGLE_RATE_BP == <<5000, 25000>>
ANGLE_RATE_LIMIT_UP == <<3000, 1500>>
ANGLE_RATE_LIMIT_DOWN == <<3600, 2600>>

apply_std_steer_angle_limits(apply_angle, apply_angle_last, v_ego) ==
  LET \* apply_angle_last * apply_angle >= 0., written on the signs of the factors
      same_side == \/ (apply_angle_last >= 0 /\ apply_angle >= 0)
                   \/ (apply_angle_last <= 0 /\ apply_angle <= 0)
      steer_up == same_side /\ Abs(apply_angle) > Abs(apply_angle_last)
      rate_limits == IF steer_up THEN ANGLE_RATE_LIMIT_UP ELSE ANGLE_RATE_LIMIT_DOWN
      angle_rate_lim == interp2(v_ego, ANGLE_RATE_BP, rate_limits)
  IN  clip(apply_angle, apply_angle_last - angle_rate_lim, apply_angle_last + angle_rate_lim)

(***************************************************************************)
(* selfdrive/car/toyota/toyotacan.py and selfdrive/car make_can_msg (not   *)
(* part of the sources at hand): the frame encoder.  A message is kept as  *)
(* the semantic command handed to the encoder.                             *)
(***************************************************************************)
make_can_msg(addr, dat, bus) == [kind |-> "CAN", addr |-> addr, dat |-> dat, bus |-> bus]

create_steer_command(steer, steer_req) ==
  [kind |-> "STEERING_LKA", steer |-> steer, steer_req |-> steer_req]

create_lta_steer_command(steer_angle, steer_req, frm, setme_x64) ==
  [kind |-> "STEERING_LTA", angle |-> steer_angle, active |-> steer_req,
   counter |-> frm, setme_x64 |-> setme_x64]

create_accel_command(acc, pcm_cancel, standstill, lead, acc_type) ==
  [kind |-> "ACC_CONTROL", accel |-> acc, cancel |-> pcm_cancel,
   standstill_req |-> standstill, lead |-> lead, acc_type |-> acc_type]

create_acc_cancel_command == [kind |-> "PCM_CRUISE"]

create_gas_interceptor_command(gas_amount, idx) ==
  [kind |-> "GAS_COMMAND", gas |-> gas_amount, counter |-> idx]

create_ui_command(steer_alert, pcm_cancel, left_line, right_line, left_lane_depart, right_lane_depart, enabled, stock_lkas_hud) ==
  [kind |-> "LKAS_HUD", steer_alert |-> steer_alert, cancel |-> pcm_cancel,
   left_line |-> left_line, right_line |-> right_line,
   left_lane_depart |-> left_lane_depart, right_lane_depart |-> right_lane_depart,
   enabled |-> enabled, lkas_hud |-> stock_lkas_hud]

create_fcw_command(fcw) == [kind |-> "PCS_HUD", fcw |-> fcw]

(***************************************************************************)
(* CarController.update, stage by stage.  Each operator reads the          *)
(* controller's fields (the variables) and the arguments `in` of the call. *)
(***************************************************************************)

\* line 65: the driver's torque overrides the caller's activation intent
LatActiveNoOverride(in) == in.latActive
lat_active(in) == in.latActive /\ Abs(in.steeringTorque) < MAX_USER_TORQUE

\* line 35 and line 79: CS.out.vEgo >= 10 * CV.KPH_TO_MS, with vEgo in mm/s
AtLockSpeedUnconverted(v) == v >= LOCK_AT_SPEED_KPH * 1000
AtLockSpeed(v) == v * 36 >= LOCK_AT_SPEED_KPH * 10000

\* lines 73-83: door auto lock / unlock
DoorStageTracksGearAlways(in) ==
  IF in.doorOpen
  THEN [msgs |-> <<>>, once |-> dp_toyota_auto_lock_once, gear_prev |-> in.gearShifter]
  ELSE LET gear == in.gearShifter IN
       IF gear = "park" /\ dp_toyota_auto_lock_gear_prev # gear
       THEN [msgs |-> IF dp_toyota_auto_lock
                      THEN <<make_can_msg(1872, UNLOCK_CMD, 0)>> ELSE <<>>,
             once |-> FALSE, gear_prev |-> gear]
       ELSE IF gear = "drive" /\ ~dp_toyota_auto_lock_once /\ AtLockSpeed(in.vEgo)
       THEN [msgs |-> IF dp_toyota_auto_unlock
                      THEN <<make_can_msg(1872, LOCK_CMD, 0)>> ELSE <<>>,
             once |-> TRUE, gear_prev |-> gear]
       ELSE [msgs |-> <<>>, once |-> dp_toyota_auto_lock_once, gear_prev |-> gear]
DoorStageNoLatch(in) ==
  IF in.doorOpen
  THEN [msgs |-> <<>>, once |-> dp_toyota_auto_lock_once,
        gear_prev |-> dp_toyota_auto_lock_gear_prev]
  ELSE LET gear == in.gearShifter IN
       IF gear = "park" /\ dp_toyota_auto_lock_gear_prev # gear
       THEN [msgs |-> IF dp_toyota_auto_lock
                      THEN <<make_can_msg(1872, UNLOCK_CMD, 0)>> ELSE <<>>,
             once |-> FALSE, gear_prev |-> gear]
       ELSE IF gear = "drive" /\ ~dp_toyota_auto_lock_once /\ AtLockSpeed(in.vEgo)
       THEN [msgs |-> IF dp_toyota_auto_unlock
                      THEN <<make_can_msg(1872, LOCK_CMD, 0)>> ELSE <<>>,
             once |-> dp_toyota_auto_lock_once, gear_prev |-> gear]
       ELSE [msgs |-> <<>>, once |-> dp_toyota_auto_lock_once, gear_prev |-> gear]
DoorStage(in) ==
  IF in.doorOpen
  THEN [msgs |-> <<>>, once |-> dp_toyota_auto_lock_once,
        gear_prev |-> dp_toyota_auto_lock_gear_prev]
  ELSE LET gear == in.gearShifter IN
       IF gear = "park" /\ dp_toyota_auto_lock_gear_prev # gear
       THEN [msgs |-> IF dp_toyota_auto_lock
                      THEN <<make_can_msg(1872, UNLOCK_CMD, 0)>> ELSE <<>>,
             once |-> FALSE, gear_prev |-> gear]
       ELSE IF gear = "drive" /\ ~dp_toyota_auto_lock_once /\ AtLockSpeed(in.vEgo)
       THEN [msgs |-> IF dp_toyota_auto_unlock
                      THEN <<make_can_msg(1872, LOCK_CMD, 0)>> ELSE <<>>,
             once |-> TRUE, gear_prev |-> gear]
       ELSE [msgs |-> <<>>, once |-> dp_toyota_auto_lock_once, gear_prev |-> gear]

\* line 86: new_steer = int(round(actuators.steer * STEER_MAX))
new_steer(in) == RoundHalfEven(in.steer * STEER_MAX, SteerDen)

\* line 87: the torque limited against the previous cycle's applied torque
UnlimitedSteer(in) == new_steer(in)
LimitedSteer(in) ==
  apply_meas_steer_torque_limits(new_steer(in), last_steer, in.steeringTorqueEps)

\* lines 90-93: count the cycles at a high steering rate
RateCounter(in) ==
  IF lat_active(in) /\ Abs(in.steeringRateDeg) >= MAX_STEER_RATE
  THEN steer_rate_counter + 1 ELSE 0

\* lines 95-101: the torque and its request flag, before the angle stage
TorqueStageKeepsRequest(in) ==
  IF ~lat_active(in)
  THEN [apply_steer |-> 0, apply_steer_req |-> 0, counter |-> RateCounter(in)]
  ELSE [apply_steer |-> LimitedSteer(in), apply_steer_req |-> 1,
        counter |-> IF RateCounter(in) > MAX_STEER_RATE_FRAMES THEN 0 ELSE RateCounter(in)]
TorqueStage(in) ==
  IF ~lat_active(in)
  THEN [apply_steer |-> 0, apply_steer_req |-> 0, counter |-> RateCounter(in)]
  ELSE IF RateCounter(in) > MAX_STEER_RATE_FRAMES
  THEN [apply_steer |-> LimitedSteer(in), apply_steer_req |-> 0, counter |-> 0]
  ELSE [apply_steer |-> LimitedSteer(in), apply_steer_req |-> 1, counter |-> RateCounter(in)]

\* lines 110-118: the angle stored on an even frame of an angle-control car
NextAngleRampsWhenInactive(in) ==
  LET wanted == in.actuatorsSteeringAngleDeg + in.steeringAngleOffsetDeg
      limited == apply_std_steer_angle_limits(wanted, last_angle, in.vEgo)
  IN  clip(limited, -MAX_STEER_ANGLE, MAX_STEER_ANGLE)
NextAngleUnclipped(in) ==
  LET wanted == in.actuatorsSteeringAngleDeg + in.steeringAngleOffsetDeg
      limited == apply_std_steer_angle_limits(wanted, last_angle, in.vEgo)
  IN  IF ~lat_active(in)
      THEN in.steeringAngleDeg + in.steeringAngleOffsetDeg
      ELSE limited
NextAngle(in) ==
  LET wanted == in.actuatorsSteeringAngleDeg + in.steeringAngleOffsetDeg
      limited == apply_std_steer_angle_limits(wanted, last_angle, in.vEgo)
      apply_angle == IF ~lat_active(in)
                     THEN in.steeringAngleDeg + in.steeringAngleOffsetDeg
                     ELSE limited
  IN  clip(apply_angle, -MAX_STEER_ANGLE, MAX_STEER_ANGLE)

\* lines 104-120: on an angle-control car the torque command is zeroed
SteerStageTorqueKept(in) ==
  [apply_steer |-> TorqueStage(in).apply_steer,
   apply_steer_req |-> TorqueStage(in).apply_steer_req,
   counter |-> TorqueStage(in).counter,
   angle |-> IF CP.steerControlType = "angle" /\ frame % 2 = 0
             THEN NextAngle(in) ELSE last_angle]
SteerStage(in) ==
  IF CP.steerControlType = "angle"
  THEN [apply_steer |-> 0, apply_steer_req |-> 0, counter |-> TorqueStage(in).counter,
        angle |-> IF frame % 2 = 0 THEN NextAngle(in) ELSE last_angle]
  ELSE [apply_steer |-> TorqueStage(in).apply_steer,
        apply_steer_req |-> TorqueStage(in).apply_steer_req,
        counter |-> TorqueStage(in).counter, angle |-> last_angle]

\* lines 126-131: the angle message of a TSS2 car, every other frame
LtaMsgs(in) ==
  IF frame % 2 = 0 /\ CP.carFingerprint \in TSS2_CAR
  THEN LET lta_active == lat_active(in) /\ CP.steerControlType = "angle"
           full_torque_condition == /\ Abs(in.steeringTorqueEps) < STEER_MAX
                                    /\ Abs(in.steeringTorque) < MAX_DRIVER_TORQUE_ALLOWANCE
           setme_x64 == IF lta_active /\ full_torque_condition THEN 100 ELSE 0
       IN  <<create_lta_steer_command(IF lta_active THEN SteerStage(in).angle ELSE 0,
                                      lta_active, frame \div 2, setme_x64)>>
  ELSE <<>>

\* lines 134-148: the pedal-emulation command
GasCmdIgnoresLongActive(in) ==
  IF CP.enableGasInterceptor
  THEN clip((400 * (in.accel + 400)) \div 1000, 0, MAX_INTERCEPTOR_GAS)
  ELSE 0
interceptor_gas_cmd(in) ==
  IF CP.enableGasInterceptor /\ in.longActive
  THEN LET bp == <<0, MIN_ACC_SPEED, MIN_ACC_SPEED + PEDAL_TRANSITION>>
           PEDAL_SCALE ==
             IF CP.carFingerprint \in PEDAL_SENSITIVE_CAR
             THEN interp3(in.vEgo, bp, <<150, 300, 0>>)
             ELSE IF CP.carFingerprint \in PEDAL_COROLLA_CAR
             THEN interp3(in.vEgo, bp, <<300, 400, 0>>)
             ELSE interp3(in.vEgo, bp, <<400, 500, 0>>)
           pedal_offset ==
             interp3(in.vEgo, <<0, 2300, MIN_ACC_SPEED + PEDAL_TRANSITION>>, <<-400, 0, 200>>)
           pedal_command == (PEDAL_SCALE * (in.accel + pedal_offset)) \div 1000
       IN  clip(pedal_command, 0, MAX_INTERCEPTOR_GAS)
  ELSE 0

\* line 149: the acceleration command
AccelCmdUnclipped(in) == in.accel
pcm_accel_cmd(in) == clip(in.accel, ACCEL_MIN, ACCEL_MAX)

\* lines 64 and 153-154: a cancel is pending
pcm_cancel_cmd(in) == in.cancel \/ (~in.enabled /\ in.pcm_acc_status # 0)

\* lines 157-161: the standstill request at the end of the cycle
StandstillNeverEntered(in) ==
  IF in.pcm_acc_status # ACTIVE_STANDSTILL THEN FALSE ELSE standstill_req
StandstillFollowsFlag(in) ==
  in.standstill /\ in.pcm_acc_status = ACTIVE_STANDSTILL
NextStandstillReq(in) ==
  LET entered == /\ ~dp_toyota_sng
                 /\ in.standstill
                 /\ ~last_standstill
                 /\ (CP.carFingerprint \notin NO_STOP_TIMER_CAR \/ CP.enableGasInterceptor)
      requested == IF entered THEN TRUE ELSE standstill_req
  IN  IF in.pcm_acc_status # ACTIVE_STANDSTILL THEN FALSE ELSE requested

\* line 166: the longitudinal stage runs on its cadence or on a pending cancel
LongDueOnCadenceOnly(in) == frame % 3 = 0 /\ CP.openpilotLongitudinalControl
LongDue(in) ==
  (frame % 3 = 0 /\ CP.openpilotLongitudinalControl) \/ pcm_cancel_cmd(in)

\* lines 166-176: the accel / cancel message
LongMsgs(in) ==
  IF LongDue(in)
  THEN LET lead == in.leadVisible \/ in.vEgo < LEAD_SPEED IN
       IF pcm_cancel_cmd(in) /\ CP.carFingerprint \in UNSUPPORTED_DSU_CAR
       THEN <<create_acc_cancel_command>>
       ELSE IF CP.openpilotLongitudinalControl
       THEN <<create_accel_command(pcm_accel_cmd(in), pcm_cancel_cmd(in),
                                   NextStandstillReq(in), lead, in.acc_type)>>
       ELSE <<create_accel_command(0, pcm_cancel_cmd(in), FALSE, lead, in.acc_type)>>
  ELSE <<>>

\* line 174: self.accel is stored only where the accel command is sent
NextAccelEveryCycle(in) == pcm_accel_cmd(in)
NextAccel(in) ==
  IF /\ LongDue(in)
     /\ ~(pcm_cancel_cmd(in) /\ CP.carFingerprint \in UNSUPPORTED_DSU_CAR)
     /\ CP.openpilotLongitudinalControl
  THEN pcm_accel_cmd(in) ELSE accel

\* lines 178-182: the pedal message, every other frame
GasDue == frame % 2 = 0 /\ CP.enableGasInterceptor /\ CP.openpilotLongitudinalControl
GasMsgs(in) ==
  IF GasDue
  THEN <<create_gas_interceptor_command(interceptor_gas_cmd(in), frame \div 2)>>
  ELSE <<>>
NextGas(in) == IF GasDue THEN interceptor_gas_cmd(in) ELSE gas

\* lines 185-207: the alert latch, the UI message and the FCW message
HudNoCancelSend(in) ==
  LET fcw_alert == in.visualAlert = "fcw"
      steer_alert == in.visualAlert \in {"steerRequired", "ldw"}
      edge == \/ ((fcw_alert \/ steer_alert) /\ ~alert_active)
              \/ (~(fcw_alert \/ steer_alert) /\ alert_active)
      send_ui == edge
      ui == create_ui_command(steer_alert, pcm_cancel_cmd(in), in.leftLaneVisible,
                              in.rightLaneVisible, in.leftLaneDepart, in.rightLaneDepart,
                              in.enabled, in.lkas_hud)
  IN  IF CP.carFingerprint # "PRIUS_V"
      THEN [msgs |-> (IF frame % 20 = 0 \/ send_ui THEN <<ui>> ELSE <<>>)
                     \o (IF (frame % 100 = 0 \/ send_ui) /\ CP.enableDsu
                         THEN <<create_fcw_command(fcw_alert)>> ELSE <<>>),
            alert_active |-> IF edge THEN ~alert_active ELSE alert_active]
      ELSE [msgs |-> <<>>, alert_active |-> alert_active]
HudNoEdgeSend(in) ==
  LET fcw_alert == in.visualAlert = "fcw"
      steer_alert == in.visualAlert \in {"steerRequired", "ldw"}
      send_ui == pcm_cancel_cmd(in)
      ui == create_ui_command(steer_alert, pcm_cancel_cmd(in), in.leftLaneVisible,
                              in.rightLaneVisible, in.leftLaneDepart, in.rightLaneDepart,
                              in.enabled, in.lkas_hud)
  IN  IF CP.carFingerprint # "PRIUS_V"
      THEN [msgs |-> (IF frame % 20 = 0 \/ send_ui THEN <<ui>> ELSE <<>>)
                     \o (IF (frame % 100 = 0 \/ send_ui) /\ CP.enableDsu
                         THEN <<create_fcw_command(fcw_alert)>> ELSE <<>>),
            alert_active |-> (fcw_alert \/ steer_alert)]
      ELSE [msgs |-> <<>>, alert_active |-> alert_active]
HudStage(in) ==
  LET fcw_alert == in.visualAlert = "fcw"
      steer_alert == in.visualAlert \in {"steerRequired", "ldw"}
      edge == \/ ((fcw_alert \/ steer_alert) /\ ~alert_active)
              \/ (~(fcw_alert \/ steer_alert) /\ alert_active)
      send_ui == edge \/ pcm_cancel_cmd(in)
      ui == create_ui_command(steer_alert, pcm_cancel_cmd(in), in.leftLaneVisible,
                              in.rightLaneVisible, in.leftLaneDepart, in.rightLaneDepart,
                              in.enabled, in.lkas_hud)
  IN  IF CP.carFingerprint # "PRIUS_V"
      THEN [msgs |-> (IF frame % 20 = 0 \/ send_ui THEN <<ui>> ELSE <<>>)
                     \o (IF (frame % 100 = 0 \/ send_ui) /\ CP.enableDsu
                         THEN <<create_fcw_command(fcw_alert)>> ELSE <<>>),
            alert_active |-> IF edge THEN ~alert_active ELSE alert_active]
      ELSE [msgs |-> <<>>, alert_active |-> alert_active]

\* lines 210-212: the keep-alive messages, in table order from row i on
RECURSIVE StaticMsgsFrom(_)
StaticMsgsFrom(i) ==
  IF i > Len(STATIC_DSU_MSGS) THEN <<>>
  ELSE LET row == STATIC_DSU_MSGS[i] IN
       (IF frame % row.fr_step = 0 /\ CP.enableDsu /\ CP.carFingerprint \in row.cars
        THEN <<make_can_msg(row.addr, row.vl, row.bus)>> ELSE <<>>)
       \o StaticMsgsFrom(i + 1)
StaticMsgs == StaticMsgsFrom(1)

\* lines 214-219: the actuator echo; steer is in units of 1 / STEER_MAX
NewActuators(in) ==
  [steer |-> SteerStage(in).apply_steer,
   steerOutputCan |-> SteerStage(in).apply_steer,
   steeringAngleDeg |-> SteerStage(in).angle,
   accel |-> NextAccel(in),
   gas |-> NextGas(in)]

\* lines 68-212: the message list, in the order the stages append to it
CanSendsPedalBeforeLong(in) ==
  DoorStage(in).msgs
  \o <<create_steer_command(SteerStage(in).apply_steer, SteerStage(in).apply_steer_req)>>
  \o LtaMsgs(in) \o GasMsgs(in) \o LongMsgs(in)
  \o HudStage(in).msgs \o StaticMsgs
CanSends(in) ==
  DoorStage(in).msgs
  \o <<create_steer_command(SteerStage(in).apply_steer, SteerStage(in).apply_steer_req)>>
  \o LtaMsgs(in) \o LongMsgs(in) \o GasMsgs(in)
  \o HudStage(in).msgs \o StaticMsgs

\* line 221: self.frame += 1
NextFrameWraps == (frame + 1) % 100
NextFrame == frame + 1

\* lines 61-222: one call of update(CC, CS, now_nanos)
Update(in) ==
  LET door == DoorStage(in)
      steer == SteerStage(in)
      hud == HudStage(in)
  IN  /\ can_sends' = CanSends(in)
      /\ dp_toyota_auto_lock_once' = door.once
      /\ dp_toyota_auto_lock_gear_prev' = door.gear_prev
      /\ steer_rate_counter' = steer.counter
      /\ last_angle' = steer.angle
      /\ last_steer' = steer.apply_steer
      /\ standstill_req' = NextStandstillReq(in)
      /\ last_standstill' = in.standstill
      /\ accel' = NextAccel(in)
      /\ gas' = NextGas(in)
      /\ alert_active' = hud.alert_active
      /\ new_actuators' = NewActuators(in)
      /\ frame' = NextFrame
      /\ inp' = in
      /\ UNCHANGED <<CP, dp_toyota_auto_lock, dp_toyota_auto_unlock, dp_toyota_sng>>

(***************************************************************************)
(* Construction (lines 38-58) and the calls of update().                   *)
(***************************************************************************)
CarParams(fingerprint, steerControlType, gasInterceptor, longControl, dsu) ==
  [carFingerprint |-> fingerprint, steerControlType |-> steerControlType,
   enableGasInterceptor |-> gasInterceptor, openpilotLongitudinalControl |-> longControl,
   enableDsu |-> dsu]

\* an update() call in which nothing is requested and the car is parked
Quiet ==
  [enabled |-> TRUE, latActive |-> FALSE, longActive |-> FALSE, cancel |-> FALSE,
   steer |-> 0, actuatorsSteeringAngleDeg |-> 0, accel |-> 0,
   visualAlert |-> "none", leadVisible |-> FALSE,
   leftLaneVisible |-> TRUE, rightLaneVisible |-> TRUE,
   leftLaneDepart |-> FALSE, rightLaneDepart |-> FALSE,
   steeringTorque |-> 0, steeringTorqueEps |-> 0, steeringRateDeg |-> 0,
   steeringAngleDeg |-> 0, steeringAngleOffsetDeg |-> 0,
   vEgo |-> 0, standstill |-> FALSE, gearShifter |-> "park", doorOpen |-> FALSE,
   pcm_acc_status |-> 0, acc_type |-> 1, lkas_hud |-> "stock"]

\* lines 38-58: the controller after __init__, for a car of `cars` and flags of `flags`
InitWith(cars, flags) ==
  /\ CP \in cars
  /\ \E f \in flags :
       /\ dp_toyota_auto_lock = f.lock
       /\ dp_toyota_auto_unlock = f.unlock
       /\ dp_toyota_sng = f.sng
  /\ frame = 0
  /\ last_steer = 0
  /\ last_angle = 0
  /\ alert_active = FALSE
  /\ last_standstill = FALSE
  /\ standstill_req = FALSE
  /\ steer_rate_counter = 0
  /\ gas = 0
  /\ accel = 0
  /\ dp_toyota_auto_lock_gear_prev = "park"
  /\ dp_toyota_auto_lock_once = FALSE
  /\ inp = Quiet
  /\ can_sends = <<>>
  /\ new_actuators = [steer |-> 0, steerOutputCan |-> 0, steeringAngleDeg |-> 0,
                      accel |-> 0, gas |-> 0]

NoFlags == {[lock |-> FALSE, unlock |-> FALSE, sng |-> FALSE]}
DoorFlags == [lock : BOOLEAN, unlock : BOOLEAN, sng : {FALSE}]
SngFlags == [lock : {FALSE}, unlock : {FALSE}, sng : BOOLEAN]

(***************************************************************************)
(* Spec: the lateral stage under wide torque and angle inputs.             *)
(***************************************************************************)
LatCars ==
  { CarParams("CAMRY", "torque", FALSE, TRUE, FALSE),
    CarParams("RAV4_TSS2", "torque", FALSE, TRUE, FALSE),
    CarParams("RAV4_TSS2", "angle", FALSE, TRUE, FALSE) }

LatInputs ==
  { [Quiet EXCEPT !.latActive = la, !.steer = st, !.steeringTorque = tq,
                  !.steeringTorqueEps = eps, !.actuatorsSteeringAngleDeg = ang,
                  !.steeringAngleDeg = -1000000, !.steeringAngleOffsetDeg = 5000,
                  !.gearShifter = "drive", !.vEgo = 5000] :
      la \in BOOLEAN, st \in {-SteerDen, -1, 2, SteerDen}, tq \in {0, 501, -500},
      eps \in {0, 6}, ang \in {50000, 1000000} }

Init == InitWith(LatCars, NoFlags)
UpdateLat == frame < MaxFrame /\ \E in \in LatInputs : Update(in)
Next == UpdateLat
Spec == Init /\ [][Next]_vars

(***************************************************************************)
(* SpecRate: long runs at a high steering rate.                            *)
(***************************************************************************)
RateCars ==
  { CarParams("CAMRY", "torque", FALSE, TRUE, FALSE),
    CarParams("RAV4_TSS2", "angle", FALSE, TRUE, FALSE) }

RateInputs ==
  { [Quiet EXCEPT !.latActive = la, !.steer = SteerDen, !.steeringTorque = tq,
                  !.steeringRateDeg = rate, !.gearShifter = "drive", !.vEgo = 5000] :
      la \in BOOLEAN, tq \in {0, 500, -501}, rate \in {0, 100, -150} }

InitRate == InitWith(RateCars, NoFlags)
UpdateRate == frame < MaxFrameRate /\ \E in \in RateInputs : Update(in)
NextRate == UpdateRate
SpecRate == InitRate /\ [][NextRate]_vars

(***************************************************************************)
(* SpecLong: the longitudinal stage (pedal, accel, standstill request).    *)
(***************************************************************************)
LongCars ==
  { CarParams("RAV4", "torque", TRUE, TRUE, FALSE),
    CarParams("COROLLA", "torque", TRUE, FALSE, FALSE),
    CarParams("CAMRY", "torque", FALSE, TRUE, FALSE),
    CarParams("CAMRY", "torque", FALSE, FALSE, FALSE),
    CarParams("RAV4_TSS2", "torque", FALSE, TRUE, FALSE),
    CarParams("RAV4_TSS2", "torque", TRUE, TRUE, FALSE) }

LongInputs ==
  { [Quiet EXCEPT !.longActive = la, !.accel = a, !.vEgo = v, !.standstill = (v = 0 /\ ss),
                  !.pcm_acc_status = st, !.gearShifter = "drive"] :
      la \in BOOLEAN, a \in {-4000, 1000, 2000}, v \in {0, 5000}, ss \in BOOLEAN,
      st \in {7, ACTIVE_STANDSTILL} }

InitLong == InitWith(LongCars, SngFlags)
UpdateLong == frame < MaxFrame /\ \E in \in LongInputs : Update(in)
NextLong == UpdateLong
SpecLong == InitLong /\ [][NextLong]_vars

(***************************************************************************)
(* SpecCadence: the longitudinal cadence over several hundred frames.      *)
(***************************************************************************)
CadenceCars ==
  { CarParams("CAMRY", "torque", FALSE, TRUE, FALSE),
    CarParams("CAMRY", "torque", FALSE, FALSE, FALSE),
    CarParams("LEXUS_IS", "torque", FALSE, TRUE, FALSE),
    CarParams("LEXUS_IS", "torque", FALSE, FALSE, FALSE) }

CadenceInputs ==
  { [Quiet EXCEPT !.cancel = c, !.enabled = en, !.pcm_acc_status = st,
                  !.gearShifter = "drive", !.vEgo = 5000] :
      c \in BOOLEAN, en \in BOOLEAN, st \in {0, ACTIVE_STANDSTILL} }

InitCadence == InitWith(CadenceCars, NoFlags)
UpdateCadence == frame < MaxFrameCadence /\ \E in \in CadenceInputs : Update(in)
NextCadence == UpdateCadence
SpecCadence == InitCadence /\ [][NextCadence]_vars

(***************************************************************************)
(* SpecHud: the alert latch and the UI message.                            *)
(***************************************************************************)
HudCars ==
  { CarParams("CAMRY", "torque", FALSE, TRUE, FALSE),
    CarParams("CAMRY", "torque", FALSE, TRUE, TRUE),
    CarParams("PRIUS_V", "torque", FALSE, TRUE, FALSE),
    CarParams("PRIUS_V", "torque", FALSE, TRUE, TRUE) }

HudInputs ==
  { [Quiet EXCEPT !.visualAlert = va, !.cancel = c, !.enabled = en, !.pcm_acc_status = st,
                  !.gearShifter = "drive", !.vEgo = 5000] :
      va \in {"none", "fcw", "steerRequired", "ldw"}, c \in BOOLEAN, en \in BOOLEAN,
      st \in {0, ACTIVE_STANDSTILL} }

InitHud == InitWith(HudCars, NoFlags)
UpdateHud == frame < MaxFrameHud /\ \E in \in HudInputs : Update(in)
NextHud == UpdateHud
SpecHud == InitHud /\ [][NextHud]_vars

(***************************************************************************)
(* SpecDoor: the door scenario drive(5 m/s), drive(12 m/s), park,          *)
(* drive(12 m/s) from construction, followed by free door inputs.          *)
(***************************************************************************)
DoorCars == { CarParams("CAMRY", "torque", FALSE, TRUE, FALSE) }

DoorScenario ==
  << [Quiet EXCEPT !.gearShifter = "drive", !.vEgo = 5000],
     [Quiet EXCEPT !.gearShifter = "drive", !.vEgo = 12000],
     [Quiet EXCEPT !.gearShifter = "park", !.vEgo = 0],
     [Quiet EXCEPT !.gearShifter = "drive", !.vEgo = 12000] >>

DoorInputs ==
  { [Quiet EXCEPT !.gearShifter = g, !.vEgo = v, !.doorOpen = d] :
      g \in {"park", "reverse", "drive"}, v \in {0, 2000, 5000, 12000}, d \in BOOLEAN }

InitDoor == InitWith(DoorCars, DoorFlags)
UpdateScenario == frame < Len(DoorScenario) /\ Update(DoorScenario[frame + 1])
UpdateDoor ==
  /\ frame >= Len(DoorScenario)
  /\ frame < MaxFrame
  /\ \E in \in DoorInputs : Update(in)
NextDoor == UpdateScenario \/ UpdateDoor
SpecDoor == InitDoor /\ [][NextDoor]_vars

(***************************************************************************)
(* SpecDoorFree: free gear, speed and door inputs from construction on.    *)
(***************************************************************************)
InitDoorFree == InitWith(DoorCars, DoorFlags)
UpdateDoorFree == frame < MaxFrame /\ \E in \in DoorInputs : Update(in)
NextDoorFree == UpdateDoorFree
SpecDoorFree == InitDoorFree /\ [][NextDoorFree]_vars

(***************************************************************************)
(* SpecAngle: the angle stage under desired and measured angles on either  *)
(* side of the angle limit.                                                *)
(***************************************************************************)
AngleCars ==
  { CarParams("RAV4_TSS2", "angle", FALSE, TRUE, FALSE),
    CarParams("RAV4_TSS2", "torque", FALSE, TRUE, FALSE),
    CarParams("CAMRY", "torque", FALSE, TRUE, FALSE) }

AngleInputs ==
  { [Quiet EXCEPT !.latActive = la, !.actuatorsSteeringAngleDeg = want,
                  !.steeringAngleDeg = meas, !.steeringAngleOffsetDeg = off,
                  !.vEgo = v, !.gearShifter = "drive"] :
      la \in BOOLEAN, want \in {-1000000, 50000}, meas \in {-1000000, 20000, 1000000},
      off \in {0, 5000}, v \in {5000, 30000} }

InitAngle == InitWith(AngleCars, NoFlags)
UpdateAngle == frame < MaxFrame /\ \E in \in AngleInputs : Update(in)
NextAngleStep == UpdateAngle
SpecAngle == InitAngle /\ [][NextAngleStep]_vars

(***************************************************************************)
(* SpecEcho: the latched accel and gas of the actuator echo, with pending   *)
(* cancels and the distinct cancel message.                                *)
(***************************************************************************)
EchoCars ==
  { CarParams("RAV4", "torque", TRUE, TRUE, FALSE),
    CarParams("CAMRY", "torque", FALSE, TRUE, FALSE),
    CarParams("CAMRY", "torque", FALSE, FALSE, FALSE),
    CarParams("LEXUS_IS", "torque", FALSE, TRUE, FALSE) }

EchoInputs ==
  { [Quiet EXCEPT !.longActive = la, !.accel = a, !.cancel = c,
                  !.gearShifter = "drive", !.vEgo = 5000] :
      la \in BOOLEAN, a \in {-4000, 1000, 2000}, c \in BOOLEAN }

InitEcho == InitWith(EchoCars, NoFlags)
UpdateEcho == frame < MaxFrame /\ \E in \in EchoInputs : Update(in)
NextEcho == UpdateEcho
SpecEcho == InitEcho /\ [][NextEcho]_vars

(***************************************************************************)
(* SpecSched: every stage's cadence over more than a hundred frames.       *)
(***************************************************************************)
SchedCars ==
  { CarParams("RAV4", "torque", TRUE, TRUE, TRUE),
    CarParams("CAMRY", "torque", FALSE, TRUE, TRUE),
    CarParams("RAV4_TSS2", "angle", FALSE, TRUE, FALSE) }

SchedInputs ==
  { [Quiet EXCEPT !.gearShifter = g, !.vEgo = 5000, !.visualAlert = va, !.cancel = c,
                  !.latActive = TRUE, !.actuatorsSteeringAngleDeg = 50000] :
      g \in {"park", "drive"}, va \in {"none", "fcw"}, c \in BOOLEAN }

AllDoorFlags == {[lock |-> TRUE, unlock |-> TRUE, sng |-> FALSE]}

InitSched == InitWith(SchedCars, AllDoorFlags)
UpdateSched == frame < MaxFrameSched /\ \E in \in SchedInputs : Update(in)
NextSched == UpdateSched
SpecSched == InitSched /\ [][NextSched]_vars

(***************************************************************************)
(* SpecStandstill: the standstill request with and without longitudinal    *)
(* control, with pending cancels.                                          *)
(***************************************************************************)
StandstillCars ==
  { CarParams("CAMRY", "torque", FALSE, TRUE, FALSE),
    CarParams("CAMRY", "torque", FALSE, FALSE, FALSE),
    CarParams("RAV4_TSS2", "torque", FALSE, TRUE, FALSE),
    CarParams("RAV4_TSS2", "torque", TRUE, TRUE, FALSE) }

StandstillInputs ==
  { [Quiet EXCEPT !.standstill = ss, !.pcm_acc_status = st, !.cancel = c,
                  !.gearShifter = "drive"] :
      ss \in BOOLEAN, st \in {7, ACTIVE_STANDSTILL}, c \in BOOLEAN }

InitStandstill == InitWith(StandstillCars, SngFlags)
UpdateStandstill == frame < MaxFrame /\ \E in \in StandstillInputs : Update(in)
NextStandstill == UpdateStandstill
SpecStandstill == InitStandstill /\ [][NextStandstill]_vars

(***************************************************************************)
(* Reading the result of the last update() call.                           *)
(***************************************************************************)
MsgsOfKind(msgs, kinds) == SelectSeq(msgs, LAMBDA m : m.kind \in kinds)
SteerMsgs == MsgsOfKind(can_sends, {"STEERING_LKA"})
LtaMsgsSent == MsgsOfKind(can_sends, {"STEERING_LTA"})
LongMsgsSent == MsgsOfKind(can_sends, {"ACC_CONTROL", "PCM_CRUISE"})
AccelMsgsSent == MsgsOfKind(can_sends, {"ACC_CONTROL"})
GasMsgsSent == MsgsOfKind(can_sends, {"GAS_COMMAND"})
UiMsgsSent == MsgsOfKind(can_sends, {"LKAS_HUD"})
DoorCmdsSent ==
  LET cmds == SelectSeq(can_sends, LAMBDA m : m.kind = "CAN" /\ m.addr = 1872)
  IN  [i \in 1..Len(cmds) |-> cmds[i].dat]
Called == frame > 0

HighRate(in) == lat_active(in) /\ Abs(in.steeringRateDeg) >= MAX_STEER_RATE
CancelPending(in) == in.cancel \/ (~in.enabled /\ in.pcm_acc_status # 0)
AnyAlert(in) == in.visualAlert \in {"fcw", "steerRequired", "ldw"}

(***************************************************************************)
(* Claims.                                                                 *)
(***************************************************************************)


\* C1: in every update() cycle the applied torque, which the steer-torque
\* message carries and last_steer stores, differs from the previous cycle's
\* last_steer by at most the per-cycle delta limit of the limit library (the
\* larger of STEER_DELTA_UP and STEER_DELTA_DOWN), except on a cycle where
\* lateral control is inactive, where it is 0.
C1_TorqueDeltaLimited ==
  [][ /\ Len(MsgsOfKind(can_sends', {"STEERING_LKA"})) = 1
      /\ MsgsOfKind(can_sends', {"STEERING_LKA"})[1].steer = last_steer'
      /\ lat_active(inp') =>
           Abs(last_steer' - last_steer) <= Max(STEER_DELTA_UP, STEER_DELTA_DOWN)
      /\ ~lat_active(inp') => last_steer' = 0 ]_vars

\* C1 witness: after two limited steps towards a full-scale request the
\* applied torque is still held at twice the upward delta, below what the
\* measured torque would allow.
C1_Witness ==
  /\ Called
  /\ CP.steerControlType = "torque"
  /\ lat_active(inp)
  /\ new_steer(inp) = STEER_MAX
  /\ last_steer = 2 * STEER_DELTA_UP
  /\ last_steer < inp.steeringTorqueEps + STEER_ERROR_MAX
  /\ SteerMsgs[1].steer = last_steer

\* C2: in a run of consecutive cycles with lateral control active and a
\* steering rate of at least 100 deg/s the fault counter counts the cycles;
\* on a torque-control car the request flag is 1 while the count is at most
\* 18, and on the 19th such cycle the flag is 0 and the counter is 0 again;
\* any other cycle resets the counter to 0.  No cut happens within the first
\* 18 cycles of the controller.
C2_RateCutOn19th ==
  [][ LET req == MsgsOfKind(can_sends', {"STEERING_LKA"})[1].steer_req
          torque == CP.steerControlType = "torque"
      IN  /\ ~HighRate(inp') => steer_rate_counter' = 0
          /\ (HighRate(inp') /\ steer_rate_counter < MAX_STEER_RATE_FRAMES) =>
               /\ steer_rate_counter' = steer_rate_counter + 1
               /\ torque => req = 1
          /\ (HighRate(inp') /\ steer_rate_counter = MAX_STEER_RATE_FRAMES) =>
               /\ steer_rate_counter' = 0
               /\ req = 0
          /\ steer_rate_counter' \in 0..MAX_STEER_RATE_FRAMES
          /\ (HighRate(inp') /\ torque /\ frame' <= MAX_STEER_RATE_FRAMES) => req = 1
    ]_vars

\* C2 witness: the 19th cycle of a high-rate run that began at construction:
\* lateral control is active, yet the request flag is 0 and the counter is 0.
C2_Witness ==
  /\ frame = MAX_STEER_RATE_FRAMES + 1
  /\ CP.steerControlType = "torque"
  /\ HighRate(inp)
  /\ SteerMsgs[1].steer_req = 0
  /\ steer_rate_counter = 0

\* C3: on every cycle in which longitudinal control is inactive or the car has
\* no pedal interceptor, the pedal-emulation command is exactly 0 for any
\* desired acceleration and speed, and any pedal message of the cycle carries 0.
C3_PedalZeroWhenInactive ==
  (Called /\ (~inp.longActive \/ ~CP.enableGasInterceptor)) =>
    /\ interceptor_gas_cmd(inp) = 0
    /\ \A i \in 1..Len(GasMsgsSent) : GasMsgsSent[i].gas = 0
    /\ Len(GasMsgsSent) > 0 => gas = 0

\* C3 witness: a pedal car with longitudinal control inactive sends a pedal
\* message carrying 0 although a positive acceleration is desired.
C3_Witness ==
  /\ Called
  /\ CP.enableGasInterceptor
  /\ ~inp.longActive
  /\ inp.accel > 0
  /\ Len(GasMsgsSent) = 1
  /\ GasMsgsSent[1].gas = 0

\* C4: once the standstill request is true at the end of a cycle it stays true
\* at the end of every following cycle whose cruise status code is 8, whatever
\* the standstill flag, and it is false at the end of every cycle whose cruise
\* status code is not 8.
C4_StandstillLatched ==
  [][ /\ (standstill_req /\ inp'.pcm_acc_status = ACTIVE_STANDSTILL) => standstill_req'
      /\ inp'.pcm_acc_status # ACTIVE_STANDSTILL => ~standstill_req' ]_vars

\* C4 witness: the request is still true after a cycle in which the standstill
\* flag is false and the cruise status code is 8.
C4_Witness ==
  /\ Called
  /\ standstill_req
  /\ ~inp.standstill
  /\ ~last_standstill
  /\ inp.pcm_acc_status = ACTIVE_STANDSTILL

\* C5 as stated: with both door flags enabled and doors closed, the sequence
\* drive at 5 m/s, drive at 12 m/s, park, drive at 12 m/s from construction
\* emits no door command, then a lock, then an unlock, then a lock.
C5_DoorScenarioAsStated ==
  (dp_toyota_auto_lock /\ dp_toyota_auto_unlock) =>
    /\ frame = 1 => DoorCmdsSent = <<>>
    /\ frame = 2 => DoorCmdsSent = <<LOCK_CMD>>
    /\ frame = 3 => DoorCmdsSent = <<UNLOCK_CMD>>
    /\ frame = 4 => DoorCmdsSent = <<LOCK_CMD>>

\* C5 amended: the same sequence emits a lock command on cycle 1 (5 m/s is
\* above the 10 km/h threshold), no door command on cycle 2 (the latch is
\* set), an unlock command on cycle 3 and a lock command on cycle 4.
C5_DoorScenario ==
  (dp_toyota_auto_lock /\ dp_toyota_auto_unlock) =>
    /\ frame = 1 => DoorCmdsSent = <<LOCK_CMD>>
    /\ frame = 2 => DoorCmdsSent = <<>>
    /\ frame = 3 => DoorCmdsSent = <<UNLOCK_CMD>>
    /\ frame = 4 => DoorCmdsSent = <<LOCK_CMD>>

\* C5 witness: the fourth cycle of the scenario has sent its lock command.
C5_Witness ==
  /\ dp_toyota_auto_lock
  /\ dp_toyota_auto_unlock
  /\ frame = 4
  /\ inp = DoorScenario[4]
  /\ DoorCmdsSent = <<LOCK_CMD>>
  /\ dp_toyota_auto_lock_once

\* C6 as stated: a UI alert message is emitted on every cycle in which "an
\* alert is active" differs from the latched alert state, whatever frame mod 20
\* is; and on a cycle where they are equal, no cancel is pending and
\* frame mod 20 is not 0, no UI alert message is emitted.
C6_UiOnEdgeAsStated ==
  [][ /\ AnyAlert(inp') # alert_active =>
           Len(MsgsOfKind(can_sends', {"LKAS_HUD"})) = 1
      /\ (AnyAlert(inp') = alert_active /\ ~CancelPending(inp') /\ frame % 20 # 0) =>
           Len(MsgsOfKind(can_sends', {"LKAS_HUD"})) = 0 ]_vars

\* C6 amended: on a car other than the PRIUS_V, a UI alert message is emitted
\* on every cycle in which "an alert is active" differs from the latched alert
\* state, whatever frame mod 20 is, and the latch then takes the new state; on
\* any car, a cycle where they are equal, no cancel is pending and frame mod 20
\* is not 0 emits no UI alert message.  A PRIUS_V never emits one.
C6_UiOnEdge ==
  [][ /\ (AnyAlert(inp') # alert_active /\ CP.carFingerprint # "PRIUS_V") =>
           /\ Len(MsgsOfKind(can_sends', {"LKAS_HUD"})) = 1
           /\ alert_active' = AnyAlert(inp')
      /\ (AnyAlert(inp') = alert_active /\ ~CancelPending(inp') /\ frame % 20 # 0) =>
           Len(MsgsOfKind(can_sends', {"LKAS_HUD"})) = 0
      /\ CP.carFingerprint = "PRIUS_V" =>
           Len(MsgsOfKind(can_sends', {"LKAS_HUD"})) = 0 ]_vars

\* C6 witness: a UI message sent off the 20-frame cadence with no cancel
\* pending, for an alert that has just appeared.
C6_Witness ==
  /\ Called
  /\ (frame - 1) % 20 # 0
  /\ ~CancelPending(inp)
  /\ AnyAlert(inp)
  /\ alert_active
  /\ Len(UiMsgsSent) = 1

\* C7: a cycle emits exactly one longitudinal-stage message (the accel/cancel
\* message or the distinct cancel message) if and only if a cancel is pending
\* (the caller requests it, or the assist system is not enabled while the
\* cruise status code is non-zero) or the car has longitudinal control enabled
\* and the pre-increment frame mod 3 is 0; otherwise it emits none.  With
\* longitudinal control enabled and no cancel pending a message is emitted at
\* frame 300 and none at frame 301.
C7_LongCadence ==
  Called =>
    LET pre == frame - 1
        due == CancelPending(inp) \/ (CP.openpilotLongitudinalControl /\ pre % 3 = 0)
    IN  /\ Len(LongMsgsSent) = (IF due THEN 1 ELSE 0)
        /\ (CP.openpilotLongitudinalControl /\ ~CancelPending(inp) /\ pre = 300) =>
             Len(LongMsgsSent) = 1
        /\ (CP.openpilotLongitudinalControl /\ ~CancelPending(inp) /\ pre = 301) =>
             Len(LongMsgsSent) = 0

\* C7 witness: a cancel forced by the cruise status alone (the caller did not
\* request one) is sent at frame 301, off the cadence.
C7_Witness ==
  /\ frame = 302
  /\ ~inp.cancel
  /\ ~inp.enabled
  /\ inp.pcm_acc_status # 0
  /\ Len(LongMsgsSent) = 1

\* C8: the acceleration command of a cycle is the desired acceleration clamped
\* to [ACCEL_MIN, ACCEL_MAX]: every accel message of a car with longitudinal
\* control enabled carries that value, which lies within the limits, and it is
\* the value stored in self.accel.
C8_AccelClamped ==
  LET clamped == IF inp.accel > ACCEL_MAX THEN ACCEL_MAX
                 ELSE IF inp.accel < ACCEL_MIN THEN ACCEL_MIN ELSE inp.accel
  IN  (Called /\ CP.openpilotLongitudinalControl) =>
        \A i \in 1..Len(AccelMsgsSent) :
          /\ AccelMsgsSent[i].accel = clamped
          /\ AccelMsgsSent[i].accel >= ACCEL_MIN
          /\ AccelMsgsSent[i].accel <= ACCEL_MAX
          /\ accel = AccelMsgsSent[i].accel

\* C8 witness: desired 2.0 m/s^2 with limits [-3.5, 1.5] is sent as 1.5.
C8_Witness ==
  /\ Called
  /\ CP.openpilotLongitudinalControl
  /\ inp.accel = 2000
  /\ ACCEL_MAX = 1500
  /\ Len(AccelMsgsSent) = 1
  /\ AccelMsgsSent[1].accel = 1500

\* C9: no cycle emits both an active steering-torque command and an active
\* steering-angle command: on an angle-control car every steer-torque message
\* carries torque 0 and request 0, on a torque-control car every angle message
\* carries angle 0 and is not active.
C9_TorqueAngleExclusive ==
  /\ CP.steerControlType = "angle" =>
       \A i \in 1..Len(SteerMsgs) : SteerMsgs[i].steer = 0 /\ SteerMsgs[i].steer_req = 0
  /\ CP.steerControlType = "torque" =>
       \A i \in 1..Len(LtaMsgsSent) : LtaMsgsSent[i].angle = 0 /\ ~LtaMsgsSent[i].active
  /\ ~ /\ \E i \in 1..Len(SteerMsgs) : SteerMsgs[i].steer # 0 \/ SteerMsgs[i].steer_req # 0
       /\ \E i \in 1..Len(LtaMsgsSent) : LtaMsgsSent[i].active

\* C9 witness: an angle-control car with lateral control active and a non-zero
\* desired torque sends an active angle command beside the zeroed torque command.
C9_Witness ==
  /\ CP.steerControlType = "angle"
  /\ lat_active(inp)
  /\ new_steer(inp) # 0
  /\ Len(LtaMsgsSent) = 1
  /\ LtaMsgsSent[1].active
  /\ LtaMsgsSent[1].angle # 0
  /\ SteerMsgs[1].steer = 0

\* C10: on every cycle in which the driver's steering torque magnitude exceeds
\* 500, or the caller reports lateral control inactive, the steer-torque
\* message carries torque 0 and request 0, last_steer is 0 and the steering-rate
\* fault counter is 0.
C10_DriverOverride ==
  (Called /\ (Abs(inp.steeringTorque) > MAX_USER_TORQUE \/ ~inp.latActive)) =>
    /\ Len(SteerMsgs) = 1
    /\ SteerMsgs[1].steer = 0
    /\ SteerMsgs[1].steer_req = 0
    /\ last_steer = 0
    /\ steer_rate_counter = 0

\* C10 witness: the caller wants lateral control at a high steering rate while
\* the driver's torque is above the threshold.
C10_Witness ==
  /\ Called
  /\ CP.steerControlType = "torque"
  /\ inp.latActive
  /\ Abs(inp.steeringTorque) > MAX_USER_TORQUE
  /\ Abs(inp.steeringRateDeg) >= MAX_STEER_RATE
  /\ new_steer(inp) # 0
  /\ SteerMsgs[1].steer = 0

\* the stage that appends a message: door, steer torque, steer angle,
\* longitudinal, pedal, UI alert, forward-collision alert, keep-alive
StageOf(m) ==
  IF m.kind = "CAN" THEN (IF m.addr = 1872 THEN 1 ELSE 8)
  ELSE IF m.kind = "STEERING_LKA" THEN 2
  ELSE IF m.kind = "STEERING_LTA" THEN 3
  ELSE IF m.kind \in {"ACC_CONTROL", "PCM_CRUISE"} THEN 4
  ELSE IF m.kind = "GAS_COMMAND" THEN 5
  ELSE IF m.kind = "LKAS_HUD" THEN 6
  ELSE 7
StagesSent == {StageOf(can_sends[i]) : i \in 1..Len(can_sends)}

\* C11: the messages returned by one cycle are in the fixed stage order door
\* lock/unlock, steer torque, steer angle, longitudinal, pedal, UI alert,
\* forward-collision alert, keep-alive: no message of a later stage precedes a
\* message of an earlier stage.
C11_StageOrder ==
  \A i \in 1..Len(can_sends) : \A j \in 1..Len(can_sends) :
    i < j => StageOf(can_sends[i]) <= StageOf(can_sends[j])

\* C11 witness: one cycle that sends a door command, the steer torque, the
\* longitudinal, pedal, UI and forward-collision messages and keep-alives.
C11_Witness ==
  /\ Called
  /\ {1, 2, 4, 5, 6, 7, 8} \subseteq StagesSent

\* C12: the frame counter starts at 0 and every update() cycle increases it by
\* exactly 1; every cadence check of the cycle (mod 2, 3, 20, 100 and the
\* keep-alive divisors) reads the value the counter had before the cycle.
C12_FrameCounter ==
  /\ frame = 0
  /\ [][ LET sent(kinds) == MsgsOfKind(can_sends', kinds)
             quietHud == /\ AnyAlert(inp') = alert_active
                         /\ ~CancelPending(inp')
                         /\ CP.carFingerprint # "PRIUS_V"
             static == SelectSeq(can_sends', LAMBDA m : m.kind = "CAN" /\ m.addr # 1872)
             rows == SelectSeq(STATIC_DSU_MSGS,
                       LAMBDA r : /\ frame % r.fr_step = 0
                                  /\ CP.enableDsu
                                  /\ CP.carFingerprint \in r.cars)
         IN  /\ frame' = frame + 1
             /\ Len(sent({"STEERING_LTA"})) =
                  (IF frame % 2 = 0 /\ CP.carFingerprint \in TSS2_CAR THEN 1 ELSE 0)
             /\ \A i \in 1..Len(sent({"STEERING_LTA"})) :
                  sent({"STEERING_LTA"})[i].counter = frame \div 2
             /\ Len(sent({"GAS_COMMAND"})) =
                  (IF /\ frame % 2 = 0
                      /\ CP.enableGasInterceptor
                      /\ CP.openpilotLongitudinalControl THEN 1 ELSE 0)
             /\ \A i \in 1..Len(sent({"GAS_COMMAND"})) :
                  sent({"GAS_COMMAND"})[i].counter = frame \div 2
             /\ ~CancelPending(inp') =>
                  Len(sent({"ACC_CONTROL", "PCM_CRUISE"})) =
                    (IF frame % 3 = 0 /\ CP.openpilotLongitudinalControl THEN 1 ELSE 0)
             /\ quietHud =>
                  /\ Len(sent({"LKAS_HUD"})) = (IF frame % 20 = 0 THEN 1 ELSE 0)
                  /\ Len(sent({"PCS_HUD"})) =
                       (IF frame % 100 = 0 /\ CP.enableDsu THEN 1 ELSE 0)
             /\ Len(static) = Len(rows)
             /\ \A i \in 1..Len(static) : static[i].addr = rows[i].addr
     ]_vars

\* C12 witness: the cycle at frame 100 has run: the counter is 101 and the
\* keep-alive with divisor 100 was sent in it.
C12_Witness ==
  /\ frame = 101
  /\ \E i \in 1..Len(can_sends) : can_sends[i].kind = "CAN" /\ can_sends[i].addr = 1128

\* the standstill-request precondition of line 157, apart from the edge
StandstillEligible ==
  /\ ~dp_toyota_sng
  /\ (CP.carFingerprint \notin NO_STOP_TIMER_CAR \/ CP.enableGasInterceptor)

\* C13 as stated: on a cycle whose standstill flag is true and was false on
\* the previous cycle, on an eligible car with the disabling flag unset, the
\* standstill request is true at the end of the cycle and in every accel
\* message of the cycle.
C13_StandstillEdgeAsStated ==
  [][ (inp'.standstill /\ ~last_standstill /\ StandstillEligible)
      => /\ standstill_req'
         /\ \A i \in 1..Len(can_sends') :
              can_sends'[i].kind = "ACC_CONTROL" => can_sends'[i].standstill_req ]_vars

\* C13: on such a cycle whose cruise status code is 8 the standstill request
\* is true at the end of the cycle and in every accel message a car with
\* longitudinal control emits in it; on any cycle whose status code is not 8
\* the request is false at the end of the cycle; and the accel message of a
\* car without longitudinal control always carries a false request.
C13_StandstillEdge ==
  [][ /\ (/\ inp'.standstill /\ ~last_standstill /\ StandstillEligible
          /\ inp'.pcm_acc_status = ACTIVE_STANDSTILL)
         => /\ standstill_req'
            /\ CP.openpilotLongitudinalControl
                 => \A i \in 1..Len(can_sends') :
                      can_sends'[i].kind = "ACC_CONTROL" => can_sends'[i].standstill_req
      /\ inp'.pcm_acc_status # ACTIVE_STANDSTILL => ~standstill_req'
      /\ ~CP.openpilotLongitudinalControl
           => \A i \in 1..Len(can_sends') :
                can_sends'[i].kind = "ACC_CONTROL" => ~can_sends'[i].standstill_req ]_vars

\* the first cycle (no standstill before it) enters standstill at status 8 on
\* a car with longitudinal control: its accel message carries the request
C13_Witness ==
  /\ Called /\ StandstillEligible /\ CP.openpilotLongitudinalControl
  /\ inp.standstill /\ inp.pcm_acc_status = ACTIVE_STANDSTILL
  /\ standstill_req
  /\ Len(AccelMsgsSent) = 1 /\ AccelMsgsSent[1].standstill_req
  /\ frame = 1

UnlockSent == \E i \in 1..Len(DoorCmdsSent) : DoorCmdsSent[i] = UNLOCK_CMD
LockSent == \E i \in 1..Len(DoorCmdsSent) : DoorCmdsSent[i] = LOCK_CMD

\* C14 as stated: an unlock command is emitted only if the automatic-unlock
\* flag (dp_toyota_auto_unlock) is enabled, and a lock command only if the
\* automatic-lock flag (dp_toyota_auto_lock) is enabled; so with only one of
\* the flags enabled the other flag's command is never emitted.
C14_FlagsGateOwnCommands ==
  /\ UnlockSent => dp_toyota_auto_unlock
  /\ LockSent => dp_toyota_auto_lock

\* C15 as stated: at the end of every cycle the tracked previous gear is the
\* gear observed in that cycle, also when a door is open, and no door command
\* is emitted on a cycle in which a door is open.
C15_GearTrackedAsStated ==
  Called => /\ dp_toyota_auto_lock_gear_prev = inp.gearShifter
            /\ inp.doorOpen => DoorCmdsSent = <<>>

\* C15: the tracked previous gear is updated only on a cycle with the doors
\* closed, where it becomes the gear observed in that cycle; on a cycle in
\* which a door is open the previous gear and the latch keep their values and
\* no door command is emitted.
C15_GearTracked ==
  [][ IF inp'.doorOpen
      THEN /\ dp_toyota_auto_lock_gear_prev' = dp_toyota_auto_lock_gear_prev
           /\ dp_toyota_auto_lock_once' = dp_toyota_auto_lock_once
           /\ DoorCmdsSent' = <<>>
      ELSE dp_toyota_auto_lock_gear_prev' = inp'.gearShifter ]_vars

\* a door-open cycle in park after which the tracked gear is still drive
C15_Witness ==
  /\ Called /\ inp.doorOpen /\ inp.gearShifter = "park"
  /\ dp_toyota_auto_lock_gear_prev = "drive"
  /\ DoorCmdsSent = <<>>

\* C16: a lock command is emitted only on a cycle that finds the latch clear
\* and sets it, and it is the cycle's only door command; a set latch is
\* cleared only by a doors-closed cycle in park whose tracked previous gear
\* was not park. Hence between two park entries, and between construction
\* (latch clear) and the first park entry, at most one lock command is sent,
\* and the latch stays set through later cycles in drive at speed.
C16_LockOncePerDrive ==
  [][ /\ LockSent' => /\ ~dp_toyota_auto_lock_once
                      /\ dp_toyota_auto_lock_once'
                      /\ Len(DoorCmdsSent') = 1
      /\ (dp_toyota_auto_lock_once /\ ~dp_toyota_auto_lock_once')
           => /\ ~inp'.doorOpen
              /\ inp'.gearShifter = "park"
              /\ dp_toyota_auto_lock_gear_prev # "park"
      /\ (dp_toyota_auto_lock_once /\ inp'.gearShifter = "drive")
           => dp_toyota_auto_lock_once' /\ ~LockSent' ]_vars

\* a doors-closed cycle in drive at speed, at least two cycles after the lock,
\* with the latch set and no command sent although the command is enabled
C16_Witness ==
  /\ frame >= 3 /\ dp_toyota_auto_unlock
  /\ ~inp.doorOpen /\ inp.gearShifter = "drive" /\ AtLockSpeed(inp.vEgo)
  /\ dp_toyota_auto_lock_once
  /\ DoorCmdsSent = <<>>

\* C17 as stated: on every cycle in which a cancel is pending a UI alert
\* message carrying the cancel flag is emitted, whatever frame mod 20 is and
\* whether or not the alert state changed.
C17_UiOnCancelAsStated ==
  (Called /\ CancelPending(inp))
    => \E i \in 1..Len(UiMsgsSent) : UiMsgsSent[i].cancel

\* C17: on a car other than the PRIUS_V, every cycle in which a cancel is
\* pending emits exactly one UI alert message, and it carries the cancel flag,
\* whatever frame mod 20 is and whether or not the alert state changed; a
\* PRIUS_V emits no UI alert message, cancel pending or not.
C17_UiOnCancel ==
  Called =>
    /\ (CancelPending(inp) /\ CP.carFingerprint # "PRIUS_V")
         => Len(UiMsgsSent) = 1 /\ UiMsgsSent[1].cancel
    /\ CP.carFingerprint = "PRIUS_V" => UiMsgsSent = <<>>

\* a cancel pending off the 20-frame cadence, with no alert shown or latched,
\* and the UI message carrying the cancel flag
C17_Witness ==
  /\ Called /\ (frame - 1) % 20 # 0
  /\ CancelPending(inp) /\ ~AnyAlert(inp) /\ ~alert_active
  /\ Len(UiMsgsSent) = 1 /\ UiMsgsSent[1].cancel

\* C18 as stated: on an angle-control car the stored angle command is
\* unchanged on odd frames; on an even frame with lateral control active it is
\* the offset-corrected desired angle rate-limited relative to the last
\* commanded angle, and on an even frame with lateral control inactive it is
\* the measured current angle.
C18_AngleCommandAsStated ==
  [][ CP.steerControlType = "angle" =>
        /\ frame % 2 = 1 => last_angle' = last_angle
        /\ (frame % 2 = 0 /\ lat_active(inp')) =>
             last_angle' = apply_std_steer_angle_limits(
                             inp'.actuatorsSteeringAngleDeg + inp'.steeringAngleOffsetDeg,
                             last_angle, inp'.vEgo)
        /\ (frame % 2 = 0 /\ ~lat_active(inp')) =>
             last_angle' = inp'.steeringAngleDeg ]_vars

\* C18: on an angle-control car the stored angle command is unchanged on odd
\* frames, where no angle message is sent either; on an even frame with
\* lateral control active it is the offset-corrected desired angle,
\* rate-limited relative to the last commanded angle and then clamped to
\* +-MAX_STEER_ANGLE; on an even frame with lateral control inactive it is the
\* measured angle plus the sensor offset, clamped to +-MAX_STEER_ANGLE, not a
\* value ramped from the last command.  The actuator echo carries the stored
\* angle; the angle message carries it when lateral control is active and 0
\* when it is inactive.
C18_AngleCommand ==
  [][ CP.steerControlType = "angle" =>
        /\ frame % 2 = 1 =>
             /\ last_angle' = last_angle
             /\ MsgsOfKind(can_sends', {"STEERING_LTA"}) = <<>>
        /\ (frame % 2 = 0 /\ lat_active(inp')) =>
             last_angle' = clip(apply_std_steer_angle_limits(
                                  inp'.actuatorsSteeringAngleDeg + inp'.steeringAngleOffsetDeg,
                                  last_angle, inp'.vEgo),
                                -MAX_STEER_ANGLE, MAX_STEER_ANGLE)
        /\ (frame % 2 = 0 /\ ~lat_active(inp')) =>
             last_angle' = clip(inp'.steeringAngleDeg + inp'.steeringAngleOffsetDeg,
                                -MAX_STEER_ANGLE, MAX_STEER_ANGLE)
        /\ new_actuators'.steeringAngleDeg = last_angle'
        /\ \A i \in 1..Len(can_sends') :
             can_sends'[i].kind = "STEERING_LTA" =>
               can_sends'[i].angle = IF lat_active(inp') THEN last_angle' ELSE 0 ]_vars

\* an even frame after the first, lateral control inactive, a non-zero sensor
\* offset: the stored angle is measured + offset, away from the desired angle,
\* and the angle message carries 0
C18_Witness ==
  /\ CP.steerControlType = "angle"
  /\ frame = 3
  /\ ~lat_active(inp) /\ inp.steeringAngleOffsetDeg # 0
  /\ last_angle = inp.steeringAngleDeg + inp.steeringAngleOffsetDeg
  /\ last_angle # inp.steeringAngleDeg
  /\ Len(LtaMsgsSent) = 1 /\ LtaMsgsSent[1].angle = 0

\* C20: the stored angle has magnitude at most MAX_STEER_ANGLE in every
\* reachable state, and so do the angle of every angle message and the angle
\* of the actuator echo; on a torque-control car the stored angle is always 0.
C20_AngleBounded ==
  /\ Abs(last_angle) <= MAX_STEER_ANGLE
  /\ Abs(new_actuators.steeringAngleDeg) <= MAX_STEER_ANGLE
  /\ \A i \in 1..Len(LtaMsgsSent) : Abs(LtaMsgsSent[i].angle) <= MAX_STEER_ANGLE
  /\ CP.steerControlType # "angle" => last_angle = 0

\* lateral control active with the stored angle at the limit, carried by the
\* angle message and the echo, the measured angle being beyond the limit
C20_Witness ==
  /\ CP.steerControlType = "angle"
  /\ lat_active(inp)
  /\ Abs(inp.steeringAngleDeg + inp.steeringAngleOffsetDeg) > MAX_STEER_ANGLE
  /\ Abs(last_angle) = MAX_STEER_ANGLE
  /\ new_actuators.steeringAngleDeg = last_angle
  /\ Len(LtaMsgsSent) = 1 /\ LtaMsgsSent[1].angle = last_angle

\* C19: the stored accel and gas are 0 after construction; the stored accel
\* changes only on a cycle in which a car with longitudinal control emits an
\* accel message, and after such a cycle equals the accel of that message; the
\* stored gas changes only on a cycle that emits a pedal message, and after
\* such a cycle equals the gas of that message; the actuator echo of every
\* cycle carries the stored values, whatever the longitudinal activation of
\* that cycle.
C19_EchoLatched ==
  /\ accel = 0 /\ gas = 0
  /\ [][ LET accel_msgs == MsgsOfKind(can_sends', {"ACC_CONTROL"})
             gas_msgs == MsgsOfKind(can_sends', {"GAS_COMMAND"})
         IN  /\ accel' # accel => (CP.openpilotLongitudinalControl /\ Len(accel_msgs) = 1)
             /\ (CP.openpilotLongitudinalControl /\ Len(accel_msgs) = 1)
                  => accel' = accel_msgs[1].accel
             /\ Len(accel_msgs) <= 1
             /\ gas' # gas => Len(gas_msgs) = 1
             /\ Len(gas_msgs) = 1 => gas' = gas_msgs[1].gas
             /\ Len(gas_msgs) <= 1
             /\ new_actuators'.accel = accel'
             /\ new_actuators'.gas = gas' ]_vars

\* a cycle with no accel and no pedal message and longitudinal control
\* inactive, whose echo carries the non-zero gas and the accel of earlier
\* messages, not the accel this cycle's input would give
C19_Witness ==
  /\ Called /\ CP.openpilotLongitudinalControl
  /\ AccelMsgsSent = <<>> /\ GasMsgsSent = <<>>
  /\ ~inp.longActive
  /\ gas > 0 /\ new_actuators.gas = gas
  /\ accel # pcm_accel_cmd(inp) /\ new_actuators.accel = accel
====
